---- MODULE Spec2Model ----
(***************************************************************************)
(* Model of folder_auditV3.py: scan_folder, print_summary,                 *)
(* print_extensions_breakdown, find_duplicates, print_duplicates,          *)
(* write_csv, write_duplicates_csv and main.                               *)
(*                                                                         *)
(* Conventions.                                                            *)
(*  - A size in KB is held as an integer number of hundredths of a KB      *)
(*    (size_kb = 1250 stands for 12.5 KB): scan_folder rounds every size   *)
(*    to 2 decimals, so hundredths lose nothing.                           *)
(*  - A file name or an extension is a sequence of one-character strings,  *)
(*    so that splitext and lower() are computed and not assumed.           *)
(*  - A directory path is a sequence of directory names; os.path.join of a *)
(*    directory and a file name is the record [dir, name].                 *)
(*  - A modification time is a whole number of days since the epoch.       *)
(*  - A call returns [raised, value]: raised = "none" and the value on a   *)
(*    normal return, the exception's class name otherwise.                 *)
(***************************************************************************)
EXTENDS Integers, Sequences, FiniteSets, TLC

VARIABLES
    tree,           \* the files of each directory of Dirs, in listing order
    root_exists,    \* whether folder_path exists on disk
    recursive,      \* the module global RECURSIVE
    min_size_kb,    \* the module global MIN_SIZE_KB, in KB
    pc,             \* position of the running call
    records,        \* the record list (main's local, or the argument of a direct call)
    mode,           \* the mode argument of a direct call of find_duplicates
    result,         \* [raised, value] of the last direct call
    dupes_by_size,  \* main's local
    dupes_by_name,  \* main's local
    disk,           \* the CSV files on disk: a set of [name, header, rows]
    console         \* the lines printed so far

vars == <<tree, root_exists, recursive, min_size_kb, pc, records, mode, result,
          dupes_by_size, dupes_by_name, disk, console>>

----------------------------------------------------------------------------
(* Bounds of the model *)

\* the most files the directory tree holds
MaxFiles == 2
\* the most records a direct call of find_duplicates / print_summary is given
MaxRecs == 3

----------------------------------------------------------------------------
(* Program constants *)

\* MIN_SIZE_KB = 10, in KB, as the module sets it
MIN_SIZE_KB == 10

\* the values the global is run with: no threshold, the module's, and twice it
Thresholds == {0, MIN_SIZE_KB, 2 * MIN_SIZE_KB}

DATE_FORMAT == "%Y-%m-%d %H:%M:%S"

\* the except clause of scan_folder
CaughtExceptions == {"PermissionError", "FileNotFoundError"}

\* what os.path.getsize and os.path.getmtime raise on a file they cannot
\* read: the two classes above, or another OSError (a symbolic link to
\* itself, a name that is too long)
ReadErrors == CaughtExceptions \cup {"OSError"}

\* the first and the last day datetime.fromtimestamp accepts: 0001-01-02 (it
\* refuses the whole of 0001-01-01 with "year 0 is out of range") and
\* 9999-12-31
MinTimestampDay == -719161

MaxTimestampDay == 2932896

----------------------------------------------------------------------------
(* Strings *)

\* str.lower() on one character
LowerChar(c) ==
    CASE c = "R" -> "r"
      [] c = "P" -> "p"
      [] c = "B" -> "b"
      [] OTHER -> c

\* str.lower()
Lower(s) == [i \in 1..Len(s) |-> LowerChar(s[i])]

\* index of the last "." of s, 0 when there is none (str.rfind)
RFindDot(s) ==
    LET dots == {i \in 1..Len(s) : s[i] = "."}
    IN IF dots = {} THEN 0 ELSE CHOOSE i \in dots : \A j \in dots : j <= i

\* os.path.splitext(filename)[1]: the text from the last dot on, provided a
\* character other than "." comes before that dot; the empty string otherwise
SplitExt(s) ==
    LET d == RFindDot(s)
    IN IF d > 0 /\ \E i \in 1..(d - 1) : s[i] # "."
       THEN SubSeq(s, d, Len(s))
       ELSE <<>>

----------------------------------------------------------------------------
(* Numbers *)

\* n/d rounded to the nearest integer, ties away from zero: what round() would
\* be under the other convention
RoundHalfUp(n, d) == (2 * n + d) \div (2 * d)

\* Python's round(): n/d rounded to the nearest integer, ties to the even one
RoundHalfEven(n, d) ==
    LET q == n \div d
        r == n % d
    IN IF 2 * r < d THEN q
       ELSE IF 2 * r > d THEN q + 1
       ELSE IF q % 2 = 0 THEN q ELSE q + 1

\* size_kb = round(size_bytes / 1024, 2), in hundredths of a KB
SizeKb(size_bytes) == RoundHalfEven(size_bytes * 100, 1024)

\* f"{x:.2f}" of a whole number of hundredths: the text of x with exactly two
\* decimals
Format2F(size_kb) == [units |-> size_kb \div 100, hundredths |-> size_kb % 100]

\* a quotient p/q that is not rounded: [num, den]
Rat(p, q) == [num |-> p, den |-> q]

Zero == Rat(0, 1)

RECURSIVE SumSeq(_)
SumSeq(s) == IF s = <<>> THEN 0 ELSE Head(s) + SumSeq(Tail(s))

----------------------------------------------------------------------------
(* The file system *)

folder_path == <<"top">>

\* the directories os.walk(folder_path) visits, top-down
Dirs == << <<"top">>, <<"top", "d">>, <<"top", "d", "e">> >>

TreeFileNames == { <<"R", ".", "P">>, <<"r", ".", "p">> }

TreeFileSizes == {10234, 10235, 20480}

\* modification times: the epoch, and a day of the year 33658 (10^12 seconds)
TreeMtimes == {0, 11574074}

\* a file of the tree: its name, its size in bytes, its modification time, and
\* the read that fails on it (fails_at) with the exception that read raises.
\* A file whose size cannot be read has no size the scan can see, and one
\* whose time cannot be read no time; 0 stands for them.
TreeFiles ==
    [name : TreeFileNames, size : TreeFileSizes, mtime : TreeMtimes,
     fails_at : {"none"}, exc : {"none"}]
    \cup
    [name : TreeFileNames, size : TreeFileSizes, mtime : {0},
     fails_at : {"getmtime"}, exc : ReadErrors]
    \cup
    [name : TreeFileNames, size : {0}, mtime : {0},
     fails_at : {"getsize"}, exc : ReadErrors]

\* the listings of one directory that hold n files: names are distinct
Listings(n) ==
    {fs \in [1..n -> TreeFiles] :
        \A i, j \in 1..n : i # j => fs[i].name # fs[j].name}

\* Listings(n) for every n the bound allows
ListingsOf == [n \in 0..MaxFiles |-> Listings(n)]

EmptyTree == [i \in 1..Len(Dirs) |-> <<>>]

\* os.walk(folder_path): one (root, files) per directory, the top first;
\* nothing at all when folder_path does not exist (os.walk swallows the
\* listing error, onerror being None)
OsWalk(t, exists) ==
    IF exists THEN [i \in 1..Len(Dirs) |-> [root |-> Dirs[i], files |-> t[i]]]
    ELSE <<>>

\* os.path.join(root, filename)
Join(root, filename) == [dir |-> root, name |-> filename]

\* datetime.fromtimestamp(ts).strftime(DATE_FORMAT): ValueError when the day
\* lies before MinTimestampDay or after MaxTimestampDay
Strftime(ts) ==
    IF ts < MinTimestampDay \/ ts > MaxTimestampDay
    THEN [raised |-> "ValueError", value |-> <<>>]
    ELSE [raised |-> "none", value |-> [format |-> DATE_FORMAT, timestamp |-> ts]]

----------------------------------------------------------------------------
(* scan_folder *)

Return(v) == [raised |-> "none", value |-> v]

Raise(e) == [raised |-> e, value |-> <<>>]

\* the size test with the byte count compared to the threshold in KB
TooSmallBytes(size_bytes, size_kb) == size_bytes < min_size_kb

\* if size_kb < MIN_SIZE_KB
TooSmall(size_bytes, size_kb) == size_kb < min_size_kb * 100

\* the try block of the loop body: the records it appends (none or one)
TryBlock(root, f) ==
    IF f.fails_at = "getsize" THEN Raise(f.exc)
    ELSE LET size_kb == SizeKb(f.size)
         IN IF TooSmall(f.size, size_kb) THEN Return(<<>>)
            ELSE IF f.fails_at = "getmtime" THEN Raise(f.exc)
            ELSE IF Strftime(f.mtime).raised # "none" THEN Strftime(f.mtime)
            ELSE Return(<< [filename |-> f.name,
                            full_path |-> Join(root, f.name),
                            extension |-> Lower(SplitExt(f.name)),
                            size_kb |-> size_kb,
                            last_modified |-> Strftime(f.mtime).value] >>)

\* the loop body with its except clause
FileStep(root, f) ==
    LET t == TryBlock(root, f)
    IN IF t.raised \in CaughtExceptions THEN Return(<<>>) ELSE t

\* for filename in files
RECURSIVE ScanFiles(_, _, _)
ScanFiles(root, files, acc) ==
    IF files = <<>> THEN Return(acc)
    ELSE LET s == FileStep(root, Head(files))
         IN IF s.raised # "none" THEN s
            ELSE ScanFiles(root, Tail(files), acc \o s.value)

\* if not RECURSIVE and root != folder_path: continue
SkipDir(rec, root) == ~rec /\ root # folder_path

\* for root, dirs, files in os.walk(folder_path)
RECURSIVE ScanWalk(_, _, _)
ScanWalk(walk, rec, acc) ==
    IF walk = <<>> THEN Return(acc)
    ELSE IF SkipDir(rec, Head(walk).root) THEN ScanWalk(Tail(walk), rec, acc)
    ELSE LET s == ScanFiles(Head(walk).root, Head(walk).files, acc)
         IN IF s.raised # "none" THEN s
            ELSE ScanWalk(Tail(walk), rec, s.value)

scan_folder(t, exists, rec) == ScanWalk(OsWalk(t, exists), rec, <<>>)

----------------------------------------------------------------------------
(* Direct call of scan_folder *)

NoResult == [raised |-> "none", value |-> <<>>]

\* the tree on disk: MaxFiles files at most over the three directories; no
\* file at all when folder_path does not exist
InitTree ==
    /\ root_exists \in BOOLEAN
    /\ IF root_exists
       THEN \E n1 \in 0..MaxFiles : \E n2 \in 0..(MaxFiles - n1) :
            \E n3 \in 0..(MaxFiles - n1 - n2) :
            \E a \in ListingsOf[n1], b \in ListingsOf[n2], c \in ListingsOf[n3] :
                tree = <<a, b, c>>
       ELSE tree = EmptyTree

InitScan ==
    /\ InitTree
    /\ recursive \in BOOLEAN
    /\ min_size_kb \in Thresholds
    /\ pc = "call_scan"
    /\ records = <<>>
    /\ mode = "size"
    /\ result = NoResult
    /\ dupes_by_size = <<>>
    /\ dupes_by_name = <<>>
    /\ disk = {}
    /\ console = <<>>

CallScanFolder ==
    /\ pc = "call_scan"
    /\ result' = scan_folder(tree, root_exists, recursive)
    /\ pc' = "returned"
    /\ UNCHANGED <<tree, root_exists, recursive, min_size_kb, records, mode,
                   dupes_by_size, dupes_by_name, disk, console>>

NextScan == CallScanFolder

SpecScan == InitScan /\ [][NextScan]_vars

----------------------------------------------------------------------------
(* find_duplicates *)

\* the key with the size divided by 4 instead of 2
SizeKeyQuarter(r) == <<RoundHalfEven(r.size_kb, 400), Lower(r.extension)>>

\* key = (round(r["size_kb"] / 2), r["extension"].lower())
SizeKey(r) == <<RoundHalfEven(r.size_kb, 200), Lower(r.extension)>>

\* key = r["filename"].lower()
NameKey(r) == Lower(r.filename)

\* the if / elif / else of the loop body: the key, or the ValueError
KeyOf(r, m) ==
    IF m = "size" THEN Return(SizeKey(r))
    ELSE IF m = "name" THEN Return(NameKey(r))
    ELSE Raise("ValueError")

\* groups[key].append(r) on a defaultdict(list), held as the sequence of its
\* items [key, files] in insertion order
GroupAppend(groups, key, r) ==
    IF \E i \in 1..Len(groups) : groups[i].key = key
    THEN [i \in 1..Len(groups) |->
            IF groups[i].key = key
            THEN [key |-> key, files |-> Append(groups[i].files, r)]
            ELSE groups[i]]
    ELSE Append(groups, [key |-> key, files |-> <<r>>])

\* for r in records
RECURSIVE GroupLoop(_, _, _)
GroupLoop(recs, m, groups) ==
    IF recs = <<>> THEN Return(groups)
    ELSE LET k == KeyOf(Head(recs), m)
         IN IF k.raised # "none" THEN k
            ELSE GroupLoop(Tail(recs), m, GroupAppend(groups, k.value, Head(recs)))

\* the filter keeping every group that is not empty
KeepGroupNonEmpty(g) == Len(g.files) > 0

\* len(v) > 1
KeepGroup(g) == Len(g.files) > 1

\* {k: v for k, v in groups.items() if len(v) > 1}
OnlyDuplicates(groups) == SelectSeq(groups, KeepGroup)

find_duplicates(recs, m) ==
    LET g == GroupLoop(recs, m, <<>>)
    IN IF g.raised # "none" THEN g ELSE Return(OnlyDuplicates(g.value))

----------------------------------------------------------------------------
(* print_summary *)

SizeOf(r) == r.size_kb

Sizes(recs) == [i \in 1..Len(recs) |-> SizeOf(recs[i])]

\* [r["size_kb"] for r in records if r["size_kb"] > 0]
IsPositive(x) == x > 0

SizeValues(recs) == SelectSeq(Sizes(recs), IsPositive)

\* statistics.median: the middle value of the sorted data, the mean of the two
\* middle values when their number is even; StatisticsError on empty data
StatisticsMedian(data) ==
    LET n == Len(data)
        sorted == SortSeq(data, <)
    IN IF n = 0 THEN Raise("StatisticsError")
       ELSE IF n % 2 = 1 THEN Return(Rat(sorted[(n \div 2) + 1], 1))
       ELSE Return(Rat(sorted[n \div 2] + sorted[(n \div 2) + 1], 2))

\* the median without the guard on empty data
MedianSizeKbUnguarded(recs) == StatisticsMedian(SizeValues(recs))

\* if size_values: median_size_kb = statistics.median(size_values) else 0
MedianSizeKb(recs) ==
    IF SizeValues(recs) # <<>> THEN StatisticsMedian(SizeValues(recs))
    ELSE Return(Zero)

\* if total_files > 0: average_size_kb = total_size_kb / total_files else 0
AverageSizeKb(total_size_kb, total_files) ==
    IF total_files > 0 THEN Return(Rat(total_size_kb, total_files))
    ELSE Return(Zero)

\* what a function that ends without a return statement returns
None == "None"

\* the six print calls. The total is a sum of sizes in hundredths and its
\* text is computed; the average and the median are quotients, and their
\* line holds the quotient and the format it is printed under: the text of
\* a quotient that lies halfway between two hundredths depends on the
\* rounding error of the double.
SummaryLines(total_files, total_size_kb, average_size_kb, median_size_kb) ==
    << [line |-> "Summary:"],
       [line |-> "-------"],
       [line |-> "Files included", count |-> total_files],
       [line |-> "Total size", size_kb |-> Format2F(total_size_kb)],
       [line |-> "Average file size", value |-> average_size_kb, format |-> ".2f"],
       [line |-> "Median file size", value |-> median_size_kb, format |-> ".2f"] >>

\* print_summary(records): what the call raises or returns, and the lines it
\* prints; an exception leaves before the first print
print_summary(recs) ==
    LET total_files == Len(recs)
        total_size_kb == SumSeq(Sizes(recs))
        median == MedianSizeKb(recs)
        average == AverageSizeKb(total_size_kb, total_files)
    IN IF median.raised # "none"
       THEN [raised |-> median.raised, value |-> <<>>, printed |-> <<>>]
       ELSE IF average.raised # "none"
       THEN [raised |-> average.raised, value |-> <<>>, printed |-> <<>>]
       ELSE [raised |-> "none", value |-> None,
             printed |-> SummaryLines(total_files, total_size_kb,
                                      average.value, median.value)]

----------------------------------------------------------------------------
(* Direct calls of find_duplicates and print_summary *)

\* the mode strings a caller passes: the two the function knows, and others
Modes == {"size", "name", "hash", ""}

CallFileNames == { <<"R", ".", "P">>, <<"r", ".", "p">>, <<"r", ".", "p", ".", "b">> }

\* sizes in hundredths of a KB: 0, 11.0, 12.5, 13.0 and 13.9 KB
CallSizes == {0, 1100, 1250, 1300, 1390}

\* the i-th record of an argument list lies in its own directory, so that
\* full paths are distinct, as the paths of one scan are
CallDir(i) == <<"top">> \o [k \in 1..i |-> "d"]

\* a record as a caller may pass it; the extension is the file name's, in the
\* file name's own case
CallRecord(i, c) ==
    [filename |-> c.filename,
     full_path |-> Join(CallDir(i), c.filename),
     extension |-> SplitExt(c.filename),
     size_kb |-> c.size_kb,
     last_modified |-> Strftime(0).value]

InitCall ==
    /\ root_exists = FALSE
    /\ tree = EmptyTree
    /\ recursive = TRUE
    /\ min_size_kb = MIN_SIZE_KB
    /\ pc = "call"
    /\ \E n \in 0..MaxRecs :
         \E cs \in [1..n -> [filename : CallFileNames, size_kb : CallSizes]] :
            records = [i \in 1..n |-> CallRecord(i, cs[i])]
    /\ mode = "size"
    /\ result = NoResult
    /\ dupes_by_size = <<>>
    /\ dupes_by_name = <<>>
    /\ disk = {}
    /\ console = <<>>

CallFindDuplicates ==
    /\ pc = "call"
    /\ \E m \in Modes :
         /\ mode' = m
         /\ result' = find_duplicates(records, m)
    /\ pc' = "returned_duplicates"
    /\ UNCHANGED <<tree, root_exists, recursive, min_size_kb, records,
                   dupes_by_size, dupes_by_name, disk, console>>

CallPrintSummary ==
    /\ pc = "call"
    /\ LET r == print_summary(records)
       IN /\ result' = [raised |-> r.raised, value |-> r.value]
          /\ console' = console \o r.printed
    /\ pc' = "returned_summary"
    /\ UNCHANGED <<tree, root_exists, recursive, min_size_kb, records, mode,
                   dupes_by_size, dupes_by_name, disk>>

NextCall == CallFindDuplicates \/ CallPrintSummary

SpecCall == InitCall /\ [][NextCall]_vars

----------------------------------------------------------------------------
(* print_extensions_breakdown *)

NoExtension == <<"(no extension)">>

\* ext = r["extension"].lower() if r["extension"] else "(no extension)"
BreakdownLabel(r) == IF r.extension # <<>> THEN Lower(r.extension) ELSE NoExtension

\* the code point order of the characters in use
CharOrd(c) ==
    CASE c = "(no extension)" -> 40
      [] c = "." -> 46
      [] c = "B" -> 66
      [] c = "P" -> 80
      [] c = "R" -> 82
      [] c = "b" -> 98
      [] c = "p" -> 112
      [] c = "r" -> 114

\* a < b on strings
RECURSIVE StrLess(_, _)
StrLess(a, b) ==
    IF b = <<>> THEN FALSE
    ELSE IF a = <<>> THEN TRUE
    ELSE IF CharOrd(Head(a)) # CharOrd(Head(b)) THEN CharOrd(Head(a)) < CharOrd(Head(b))
    ELSE StrLess(Tail(a), Tail(b))

\* sorted(extension_counts)
RECURSIVE SortLabels(_)
SortLabels(labels) ==
    IF labels = {} THEN <<>>
    ELSE LET m == CHOOSE x \in labels : \A y \in labels \ {x} : StrLess(x, y)
         IN <<m>> \o SortLabels(labels \ {m})

\* one printed line per extension, in sorted order: the label, the count and
\* extension_sizes[ext], the sum the line's MB figure is made from. The text
\* of that figure (the binary double sum / 1024 under :8.2f) is not computed:
\* on a tie it depends on the rounding error of the double.
print_extensions_breakdown(recs) ==
    LET idx == 1..Len(recs)
        labels == SortLabels({BreakdownLabel(recs[i]) : i \in idx})
        Of(l) == SelectSeq(recs, LAMBDA r : BreakdownLabel(r) = l)
    IN [k \in 1..Len(labels) |->
          [ext |-> labels[k],
           count |-> Len(Of(labels[k])),
           size_kb |-> SumSeq(Sizes(Of(labels[k])))]]

----------------------------------------------------------------------------
(* print_duplicates, write_csv, write_duplicates_csv *)

RECURSIVE Flatten(_)
Flatten(ss) == IF ss = <<>> THEN <<>> ELSE Head(ss) \o Flatten(Tail(ss))

\* the lines print_duplicates prints; the first branch prints the text
\* "{mode}" as it stands, the string not being an f-string
print_duplicates(duplicates, label) ==
    IF duplicates = <<>> THEN << [line |-> "No duplicates found by {mode}."] >>
    ELSE << [line |-> "Duplicate files by", label |-> label] >>
         \o Flatten([g \in 1..Len(duplicates) |->
               << [line |-> "Match", key |-> duplicates[g].key] >>
               \o [i \in 1..Len(duplicates[g].files) |->
                     [line |-> "member",
                      full_path |-> duplicates[g].files[i].full_path,
                      size_kb |-> duplicates[g].files[i].size_kb]]])

CsvHeader == <<"Filename", "Full Path", "Extension", "Size (KB)", "Last Modified">>

DuplicatesCsvHeader ==
    <<"Duplicate Group", "Filename", "Full_Path", "Extension", "Size (KB)",
      "Last Modified">>

CsvRow(r) ==
    [filename |-> r.filename, full_path |-> r.full_path,
     extension |-> r.extension, size_kb |-> Format2F(r.size_kb),
     last_modified |-> r.last_modified]

DuplicatesCsvRow(group_key, r) ==
    [group |-> group_key, filename |-> r.filename, full_path |-> r.full_path,
     extension |-> r.extension, size_kb |-> Format2F(r.size_kb),
     last_modified |-> r.last_modified]

\* open(output_csv, mode="w"): the file is created, or emptied if it exists
WriteFile(d, name, header, rows) ==
    {f \in d : f.name # name} \cup {[name |-> name, header |-> header, rows |-> rows]}

\* write_csv(records, output_csv): the disk after the call
write_csv(d, recs, output_csv) ==
    WriteFile(d, output_csv, CsvHeader, [i \in 1..Len(recs) |-> CsvRow(recs[i])])

\* write_duplicates_csv(duplicates, output_csv): the disk after the call
write_duplicates_csv(d, duplicates, output_csv) ==
    WriteFile(d, output_csv, DuplicatesCsvHeader,
              Flatten([g \in 1..Len(duplicates) |->
                         [i \in 1..Len(duplicates[g].files) |->
                            DuplicatesCsvRow(duplicates[g].key,
                                             duplicates[g].files[i])]]))

----------------------------------------------------------------------------
(* main *)

output_csv == "folder_audit.csv"

Exists(d, name) == \E f \in d : f.name = name

InitMain ==
    /\ InitTree
    /\ recursive \in BOOLEAN
    /\ min_size_kb \in Thresholds
    /\ pc = "main"
    /\ records = <<>>
    /\ mode = "size"
    /\ result = NoResult
    /\ dupes_by_size = <<>>
    /\ dupes_by_name = <<>>
    /\ disk = {}
    /\ console = <<>>

\* print("Starting folder audit...")
MainStart ==
    /\ pc = "main"
    /\ console' = Append(console, [line |-> "Starting folder audit..."])
    /\ pc' = "scan"
    /\ UNCHANGED <<tree, root_exists, recursive, min_size_kb, records, mode, result,
                   dupes_by_size, dupes_by_name, disk>>

\* records = scan_folder(folder_to_scan)
MainScan ==
    /\ pc = "scan"
    /\ LET r == scan_folder(tree, root_exists, recursive)
       IN /\ result' = r
          /\ records' = r.value
          /\ pc' = IF r.raised = "none" THEN "summary" ELSE "raised"
    /\ UNCHANGED <<tree, root_exists, recursive, min_size_kb, mode,
                   dupes_by_size, dupes_by_name, disk, console>>

\* print_summary(records)
MainSummary ==
    /\ pc = "summary"
    /\ LET r == print_summary(records)
       IN /\ result' = [raised |-> r.raised, value |-> r.value]
          /\ console' = console \o r.printed
          /\ pc' = IF r.raised = "none" THEN "breakdown" ELSE "raised"
    /\ UNCHANGED <<tree, root_exists, recursive, min_size_kb, records, mode,
                   dupes_by_size, dupes_by_name, disk>>

\* print_extensions_breakdown(records)
MainBreakdown ==
    /\ pc = "breakdown"
    /\ console' = Append(console, [line |-> "File type breakdown",
                                   rows |-> print_extensions_breakdown(records)])
    /\ pc' = "find_size"
    /\ UNCHANGED <<tree, root_exists, recursive, min_size_kb, records, mode, result,
                   dupes_by_size, dupes_by_name, disk>>

\* dupes_by_size = find_duplicates(records, mode="size")
MainFindBySize ==
    /\ pc = "find_size"
    /\ LET r == find_duplicates(records, "size")
       IN /\ result' = r
          /\ dupes_by_size' = r.value
          /\ pc' = IF r.raised = "none" THEN "print_size" ELSE "raised"
    /\ UNCHANGED <<tree, root_exists, recursive, min_size_kb, records, mode,
                   dupes_by_name, disk, console>>

\* print_duplicates(dupes_by_size, "name + size + extension")
MainPrintBySize ==
    /\ pc = "print_size"
    /\ console' = console \o print_duplicates(dupes_by_size, "name + size + extension")
    /\ pc' = "write_size"
    /\ UNCHANGED <<tree, root_exists, recursive, min_size_kb, records, mode, result,
                   dupes_by_size, dupes_by_name, disk>>

\* write_duplicates_csv(dupes_by_size, "duplicates by size.csv")
MainWriteBySize ==
    /\ pc = "write_size"
    /\ disk' = write_duplicates_csv(disk, dupes_by_size, "duplicates by size.csv")
    /\ pc' = "find_name"
    /\ UNCHANGED <<tree, root_exists, recursive, min_size_kb, records, mode, result,
                   dupes_by_size, dupes_by_name, console>>

\* dupes_by_name = find_duplicates(records, mode="name")
MainFindByName ==
    /\ pc = "find_name"
    /\ LET r == find_duplicates(records, "name")
       IN /\ result' = r
          /\ dupes_by_name' = r.value
          /\ pc' = IF r.raised = "none" THEN "print_name" ELSE "raised"
    /\ UNCHANGED <<tree, root_exists, recursive, min_size_kb, records, mode,
                   dupes_by_size, disk, console>>

\* print_duplicates(dupes_by_name, "name + size + extension")
MainPrintByName ==
    /\ pc = "print_name"
    /\ console' = console \o print_duplicates(dupes_by_name, "name + size + extension")
    /\ pc' = "write_name"
    /\ UNCHANGED <<tree, root_exists, recursive, min_size_kb, records, mode, result,
                   dupes_by_size, dupes_by_name, disk>>

\* write_duplicates_csv(dupes_by_name, "duplicates by name.csv")
MainWriteByName ==
    /\ pc = "write_name"
    /\ disk' = write_duplicates_csv(disk, dupes_by_name, "duplicates by name.csv")
    /\ pc' = "finish"
    /\ UNCHANGED <<tree, root_exists, recursive, min_size_kb, records, mode, result,
                   dupes_by_size, dupes_by_name, console>>

\* print("Scan complete."); print(f"Files found: {len(records)}");
\* print(f"CSV written to: {output_csv}")
MainFinish ==
    /\ pc = "finish"
    /\ console' = console \o << [line |-> "Scan complete."],
                                [line |-> "Files found", count |-> Len(records)],
                                [line |-> "CSV written to", file |-> output_csv] >>
    /\ pc' = "done"
    /\ UNCHANGED <<tree, root_exists, recursive, min_size_kb, records, mode, result,
                   dupes_by_size, dupes_by_name, disk>>

Next ==
    \/ MainStart
    \/ MainScan
    \/ MainSummary
    \/ MainBreakdown
    \/ MainFindBySize
    \/ MainPrintBySize
    \/ MainWriteBySize
    \/ MainFindByName
    \/ MainPrintByName
    \/ MainWriteByName
    \/ MainFinish

Spec == InitMain /\ [][Next]_vars

----------------------------------------------------------------------------
(* What the claims speak of, stated on the tree and not through the scan *)

Abs(x) == IF x < 0 THEN 0 - x ELSE x

\* every (directory, file) of the tree, in the order os.walk lists them
AllEntries ==
    IF root_exists
    THEN Flatten([i \in 1..Len(Dirs) |->
                    [k \in 1..Len(tree[i]) |-> [dir |-> Dirs[i], file |-> tree[i][k]]]])
    ELSE <<>>

\* size / 1024, rounded to 2 decimals, is at least min_size_kb: the quotient
\* is at least min_size_kb - 0.005
MeetsThreshold(f) == 200 * f.size >= (200 * min_size_kb - 1) * 1024

\* the file has vanished or denies permission at one of the two reads
Inaccessible(f) == f.exc \in {"PermissionError", "FileNotFoundError"}

\* both reads of the file succeed
Accessible(f) == f.fails_at = "none"

PathOfEntry(e) == [dir |-> e.dir, name |-> e.file.name]

PathsOf(recs) == [i \in 1..Len(recs) |-> recs[i].full_path]

EntryQualifies(e) == ~Inaccessible(e.file) /\ MeetsThreshold(e.file)

EntryVisited(e) == recursive \/ e.dir = folder_path

EntryExpected(e) == EntryVisited(e) /\ EntryQualifies(e)

\* the paths a scan is to return: the visited files that meet the threshold,
\* those that have vanished or deny permission left out, in listing order
ExpectedPaths ==
    LET es == SelectSeq(AllEntries, EntryExpected)
    IN [i \in 1..Len(es) |-> PathOfEntry(es[i])]

ScanReturned == pc = "returned"

----------------------------------------------------------------------------
(* C1: every record the scan returns has size_kb >= min_size_kb, its size_kb
   being the file's byte size divided by 1024 and rounded to 2 decimals; a
   file whose size_kb is below the threshold is in no returned record. *)
C1_RecordsMeetThreshold ==
    ScanReturned =>
        /\ \A i \in 1..Len(result.value) :
              LET r == result.value[i]
              IN /\ r.size_kb >= min_size_kb * 100
                 /\ \E k \in 1..Len(AllEntries) :
                       /\ PathOfEntry(AllEntries[k]) = r.full_path
                       /\ 2 * Abs(1024 * r.size_kb - 100 * AllEntries[k].file.size) <= 1024
        /\ \A k \in 1..Len(AllEntries) :
              ~MeetsThreshold(AllEntries[k].file) =>
                  \A i \in 1..Len(result.value) :
                      result.value[i].full_path # PathOfEntry(AllEntries[k])

\* under the threshold of 10 KB a file of 10234 bytes (9.99 KB) was dropped
\* and one of 10235 bytes (10.00 KB after rounding) was returned
C1_Witness ==
    /\ ScanReturned
    /\ min_size_kb = MIN_SIZE_KB
    /\ \E k \in 1..Len(AllEntries) :
          /\ AllEntries[k].file.size = 10234
          /\ Accessible(AllEntries[k].file)
          /\ EntryVisited(AllEntries[k])
    /\ \E i \in 1..Len(result.value) : result.value[i].size_kb = 1000

(* C2: whichever files vanish or deny permission at the size read or at the
   modification-time read, the scan returns normally, and what it returns is,
   in listing order, a record for each other visited file that meets the
   threshold, the files listed after a failing one included. *)
C2_ScanSurvivesInaccessibleFiles ==
    ScanReturned =>
        /\ result.raised = "none"
        /\ PathsOf(result.value) = ExpectedPaths

(* C6: with RECURSIVE false every returned record is a direct child of the
   root, and every direct child that meets the threshold, and has not
   vanished nor denies permission, is returned, in listing order. *)
C6_NonRecursiveTopLevelOnly ==
    (ScanReturned /\ ~recursive) =>
        /\ \A i \in 1..Len(result.value) : result.value[i].full_path.dir = folder_path
        /\ LET top == SelectSeq(tree[1], LAMBDA f : ~Inaccessible(f) /\ MeetsThreshold(f))
           IN /\ Len(result.value) = Len(top)
              /\ \A i \in 1..Len(top) :
                    /\ result.value[i].filename = top[i].name
                    /\ result.value[i].full_path = [dir |-> folder_path, name |-> top[i].name]

(* C7: a scan whose root does not exist, or whose tree holds no file that
   meets the size threshold, returns the empty record list and does not
   raise. *)
C7_EmptyScanReturnsEmpty ==
    (ScanReturned /\ (~root_exists
                      \/ \A k \in 1..Len(AllEntries) :
                            ~MeetsThreshold(AllEntries[k].file))) =>
        /\ result.raised = "none"
        /\ result.value = <<>>

\* no read of a visited file fails with an error the except clause does not
\* name, and every modification time is one datetime can hold
NoOtherReadError ==
    \A k \in 1..Len(AllEntries) :
        EntryVisited(AllEntries[k]) =>
            /\ AllEntries[k].file.exc # "OSError"
            /\ Strftime(AllEntries[k].file.mtime).raised = "none"

\* on the trees of NoOtherReadError the three statements above hold: the
\* scans that break them are those an uncaught exception ends
ScanToleratesCaughtErrors ==
    NoOtherReadError =>
        /\ C2_ScanSurvivesInaccessibleFiles
        /\ C6_NonRecursiveTopLevelOnly
        /\ C7_EmptyScanReturnsEmpty

\* a scan that an uncaught exception ended
ScanRaised == ScanReturned /\ result.raised # "none"

----------------------------------------------------------------------------
(* Direct calls of find_duplicates *)

DuplicatesReturned == pc = "returned_duplicates"

ValidModes == {"size", "name"}

RecordIndexes == 1..Len(records)

GroupIndexes == 1..Len(result.value)

\* the key the given mode assigns to a record
KeyUnder(r) == KeyOf(r, mode).value

Members(g) == {result.value[g].files[i] : i \in 1..Len(result.value[g].files)}

\* the two records are listed under one key of the result
SameGroup(i, j) ==
    \E g \in GroupIndexes : records[i] \in Members(g) /\ records[j] \in Members(g)

(* C3: find_duplicates called with a mode other than "size" and "name" fails
   with ValueError and returns no groups, whatever record list it is given,
   the empty list included. *)
C3_InvalidModeRaises ==
    (DuplicatesReturned /\ mode \notin ValidModes) =>
        /\ result.raised = "ValueError"
        /\ result.value = <<>>

(* C4: under either valid mode a key is in the result if and only if at
   least two input records have that key, and the members listed under it are
   all the input records with that key, in input order; no group has fewer
   than two members and no key is listed twice. *)
C4_GroupsAreExactlyTheRepeatedKeys ==
    (DuplicatesReturned /\ mode \in ValidModes) =>
        /\ result.raised = "none"
        /\ \A i \in RecordIndexes :
              (Cardinality({j \in RecordIndexes :
                               KeyUnder(records[j]) = KeyUnder(records[i])}) >= 2)
              <=> (\E g \in GroupIndexes : result.value[g].key = KeyUnder(records[i]))
        /\ \A g \in GroupIndexes :
              /\ Len(result.value[g].files) >= 2
              /\ result.value[g].files =
                    SelectSeq(records, LAMBDA r : KeyUnder(r) = result.value[g].key)
        /\ \A g, h \in GroupIndexes :
              g # h => result.value[g].key # result.value[h].key

\* three records were given, the first and the last share a key and the one
\* between them does not: the result is the one group of the two, in order
C4_Witness ==
    /\ DuplicatesReturned
    /\ mode \in ValidModes
    /\ Len(records) = 3
    /\ KeyUnder(records[1]) = KeyUnder(records[3])
    /\ KeyUnder(records[2]) # KeyUnder(records[1])
    /\ Len(result.value) = 1
    /\ result.value[1].files = <<records[1], records[3]>>

\* k is size_kb / 2 rounded to the nearest integer, a tie going to the even one
IsHalfSize(k, size_kb) ==
    \/ Abs(size_kb - 200 * k) < 100
    \/ Abs(size_kb - 200 * k) = 100 /\ k % 2 = 0

HalfSize(size_kb) == CHOOSE k \in 0..((size_kb \div 200) + 1) : IsHalfSize(k, size_kb)

(* C9: under by-size grouping two records are in one group if and only if
   their lower-cased extensions are equal and round(size_kb / 2), ties going
   to the even integer, is the same for both. *)
C9_BySizeGroupsByExtensionAndHalfSize ==
    (DuplicatesReturned /\ mode = "size") =>
        \A i, j \in RecordIndexes :
            i # j =>
               (SameGroup(i, j) <=>
                   /\ Lower(records[i].extension) = Lower(records[j].extension)
                   /\ HalfSize(records[i].size_kb) = HalfSize(records[j].size_kb))

\* records of 11.0 and 12.5 KB whose extensions differ in case only share a
\* group, and a record of 11.0 KB with another extension is not in it
C9_Witness ==
    /\ DuplicatesReturned
    /\ mode = "size"
    /\ Len(records) = 3
    /\ records[1].size_kb = 1100 /\ records[1].extension = <<".", "P">>
    /\ records[2].size_kb = 1250 /\ records[2].extension = <<".", "p">>
    /\ records[3].size_kb = 1100 /\ records[3].extension = <<".", "b">>
    /\ SameGroup(1, 2)
    /\ ~SameGroup(1, 3)

(* C10: two records of one by-size group differ by 2 KB at most, and by
   exactly 2 KB only when the group's half-size key is even. *)
C10_BySizeGroupSpansAtMostTwoKb ==
    (DuplicatesReturned /\ mode = "size") =>
        \A g \in GroupIndexes :
            \A a, b \in Members(g) :
                /\ Abs(a.size_kb - b.size_kb) <= 200
                /\ Abs(a.size_kb - b.size_kb) = 200 => result.value[g].key[1] % 2 = 0

\* a group holds records of 11.0 and 13.0 KB: 2 KB apart, under the even key 6
C10_Witness ==
    /\ DuplicatesReturned
    /\ mode = "size"
    /\ \E g \in GroupIndexes :
          /\ result.value[g].key[1] = 6
          /\ \E a, b \in Members(g) : a.size_kb = 1100 /\ b.size_kb = 1300

----------------------------------------------------------------------------
(* Direct calls of print_summary *)

SummaryReturned == pc = "returned_summary"

AllSizesZero == \A i \in RecordIndexes : records[i].size_kb = 0

\* the printed lines that begin with the given label
PrintedLines(label) ==
    {console[i] : i \in {j \in 1..Len(console) : console[j].line = label}}

\* the sum of the sizes of the records, in hundredths of a KB
TotalOfRecords == SumSeq([i \in RecordIndexes |-> records[i].size_kb])

(* C8: print_summary does not fail and prints one line for each figure; the
   file count is the number of records and the total their summed size, the
   records of size 0 included; on the empty record list the average and the
   median are 0; on records whose sizes are all 0 the median is 0 and the
   total 0.00. *)
C8_SummaryOnDegenerateInput ==
    SummaryReturned =>
        /\ result.raised = "none"
        /\ PrintedLines("Files included") =
              {[line |-> "Files included", count |-> Len(records)]}
        /\ PrintedLines("Total size") =
              {[line |-> "Total size",
                size_kb |-> [units |-> TotalOfRecords \div 100,
                             hundredths |-> TotalOfRecords % 100]]}
        /\ Cardinality(PrintedLines("Average file size")) = 1
        /\ Cardinality(PrintedLines("Median file size")) = 1
        /\ records = <<>> =>
              /\ \A l \in PrintedLines("Average file size") : l.value = Zero
              /\ \A l \in PrintedLines("Median file size") : l.value = Zero
        /\ AllSizesZero =>
              /\ \A l \in PrintedLines("Median file size") : l.value = Zero
              /\ \A l \in PrintedLines("Total size") :
                    l.size_kb = [units |-> 0, hundredths |-> 0]

\* the summary of two or more records, all of size 0, has been printed: the
\* records are counted and the median is 0
C8_Witness ==
    /\ SummaryReturned
    /\ Len(records) >= 2
    /\ AllSizesZero
    /\ \E l \in PrintedLines("Files included") : l.count = Len(records)
    /\ \E l \in PrintedLines("Median file size") : l.value = Zero

\* the summary of the empty record list has been printed
C8_WitnessEmpty ==
    /\ SummaryReturned
    /\ records = <<>>
    /\ \E l \in PrintedLines("Average file size") : l.value = Zero

----------------------------------------------------------------------------
(* main *)

(* C5: a run of main that has completed without error has written the three
   reports: the primary CSV, with its header and one row per scanned record,
   and the two duplicate CSVs; the primary CSV named in the last console line
   exists when that line has been printed. *)
C5_AllReportsWritten ==
    pc = "done" =>
        /\ Exists(disk, "duplicates by size.csv")
        /\ Exists(disk, "duplicates by name.csv")
        /\ \E f \in disk :
              /\ f.name = output_csv
              /\ f.header = CsvHeader
              /\ Len(f.rows) = Len(records)
        /\ \A i \in 1..Len(console) :
              console[i].line = "CSV written to" => Exists(disk, console[i].file)

====
